---- MODULE Spec2Model ----
(***************************************************************************)
(* Scan orchestrator: the trigger pass (scripts/trigger_scans.py) and the  *)
(* collection pass (scripts/collect_reports.py) as one state machine.      *)
(* The remote CI system is the environment: every remote call draws its    *)
(* outcome from a small set.  Time is the wall clock in whole seconds.     *)
(***************************************************************************)
EXTENDS Integers, Sequences, FiniteSets, TLC

\* ------------------------------------------------------------------ bounds
MaxRepos == 2
MaxRuns == 11
MaxTimeoutMinutes == 1
MaxArtifacts == 2
MaxReports == 2

\* ------------------------------------------------------- program constants
GraceDelay == 5
RunWindow == 10
SecondsPerMinute == 60

None == "None"
Absent == "absent"
\* run_id: None
NoId == -1
NoFile == [written |-> FALSE]

NewRunId == 7001
\* Repository identifiers owner/name, as sequences of characters.
RepoNames ==
    << <<"a", "-", "b", "/", "c">>, <<"a", "/", "b", "-", "c">>,
       <<"a", "/", "b">>, <<"b", "/", "c">> >>
Latencies == {0, 1}
\* --poll-interval is any int; time.sleep raises ValueError below zero.
PollIntervals == {-1, 45, 60}
\* The collection pass starts once the trigger pass can have ended.
LaunchTime == 1 + MaxRepos + GraceDelay
ErrorMessages == {"404 Not Found", "403 Forbidden"}

\* Outcomes of the remote dispatch (get_repo, get_workflow, create_dispatch):
\* create_dispatch returns True or False, or one of the calls raises
\* GithubException with a message.
DispatchOutcomes ==
    {[ret |-> "True", msg |-> None], [ret |-> "False", msg |-> None]}
    \cup {[ret |-> "GithubException", msg |-> m] : m \in ErrorMessages}

VARIABLES
    pc,              \* position of the running script
    now,             \* wall clock, seconds
    repos,           \* get_repos_to_scan(): the targeted repositories
    dry_run,         \* args.dry_run
    trigger_time,    \* main(): trigger_time
    results,         \* main(): results
    i,               \* index of the loop in progress
    output,          \* the trigger output file
    dispatch_calls,  \* per repository: remote dispatches issued
    lookup_calls,    \* per repository: run-id lookups issued
    run_id_writes,   \* per repository: assignments to run_id
    lookup,          \* the latest run-id lookup: record index and listing
    op,              \* the remote call or sleep made by the latest step
    args,            \* collect_reports.py: timeout, poll_interval, skip_wait
    runs,            \* collect_reports.py main(): runs
    start_time,      \* wait_for_completion: start_time
    elapsed,         \* wait_for_completion: elapsed
    pending_runs,    \* wait_for_completion: pending_runs, as indices of runs
    all_completed,   \* wait_for_completion: all_completed
    completed_count, \* wait_for_completion: completed_count
    collected,       \* collect_reports: results
    collection,      \* collection-results.json
    one_run,         \* collect_reports on one record: the record
    one_listing,     \* collect_reports on one record: the artifact listing
    one_result,      \* collect_reports on one record: what it produced
    documents,       \* aggregate_reports.py: the report files discovered
    reports,         \* aggregate_reports.py main(): reports
    aggregated       \* aggregate_reports.py: the aggregate file

trigger_vars == <<repos, dry_run, trigger_time, results, output,
                  dispatch_calls, lookup_calls, run_id_writes, lookup>>
wait_vars == <<start_time, elapsed, pending_runs, all_completed,
               completed_count>>
collect_vars == <<args, runs, wait_vars, collected, collection>>

\* The variables of the specifications of collect_reports on one record and
\* of aggregate_reports.py.
unit_vars == <<one_run, one_listing, one_result, documents, reports,
               aggregated>>

vars == <<pc, now, i, op, trigger_vars, collect_vars, unit_vars>>

NoOp == [kind |-> "none", rec |-> 0, outcome |-> None]
NoLookup == [rec |-> 0, ok |-> TRUE, runs |-> <<>>]
NoArgs == [timeout |-> 0, poll_interval |-> 0, skip_wait |-> FALSE]

Min(a, b) == IF a < b THEN a ELSE b

\* ------------------------------------------------------- trigger_scans.py

\* get_repos_to_scan: one entry per targeted repository.
RepoConfig(k) ==
    [name |-> RepoNames[k], workflow_file |-> "ci.yml", branch |-> "main"]

\* A mutant of trigger_workflow: the remote error is not caught.
trigger_workflow_uncaught(repo_config, dry, outcome, t) ==
    LET result == [repo |-> repo_config.name,
                   workflow_file |-> repo_config.workflow_file,
                   branch |-> repo_config.branch,
                   status |-> "unknown", run_id |-> NoId, error |-> None,
                   triggered_at |-> t]
    IN  IF dry
        THEN [result |-> [result EXCEPT !.status = "dry_run"],
              calls |-> 0, raised |-> FALSE]
        ELSE IF outcome.ret = "GithubException"
        THEN [result |-> result, calls |-> 1, raised |-> TRUE]
        ELSE IF outcome.ret = "True"
        THEN [result |-> [result EXCEPT !.status = "triggered"],
              calls |-> 1, raised |-> FALSE]
        ELSE [result |-> [result EXCEPT !.status = "failed",
                              !.error = "create_dispatch returned False"],
              calls |-> 1, raised |-> FALSE]

\* A mutant of trigger_workflow: a False return is taken for a success.
trigger_workflow_false_ok(repo_config, dry, outcome, t) ==
    LET result == [repo |-> repo_config.name,
                   workflow_file |-> repo_config.workflow_file,
                   branch |-> repo_config.branch,
                   status |-> "unknown", run_id |-> NoId, error |-> None,
                   triggered_at |-> t]
    IN  IF dry
        THEN [result |-> [result EXCEPT !.status = "dry_run"],
              calls |-> 0, raised |-> FALSE]
        ELSE IF outcome.ret = "GithubException"
        THEN [result |-> [result EXCEPT !.status = "error",
                              !.error = outcome.msg],
              calls |-> 1, raised |-> FALSE]
        ELSE [result |-> [result EXCEPT !.status = "triggered"],
              calls |-> 1, raised |-> FALSE]

\* A mutant of trigger_workflow: the dry-run branch does not return early.
trigger_workflow_no_dry(repo_config, dry, outcome, t) ==
    LET result == [repo |-> repo_config.name,
                   workflow_file |-> repo_config.workflow_file,
                   branch |-> repo_config.branch,
                   status |-> "unknown", run_id |-> NoId, error |-> None,
                   triggered_at |-> t]
    IN  IF outcome.ret = "GithubException"
        THEN [result |-> [result EXCEPT !.status = "error",
                              !.error = outcome.msg],
              calls |-> 1, raised |-> FALSE]
        ELSE IF outcome.ret = "True"
        THEN [result |-> [result EXCEPT !.status = "triggered"],
              calls |-> 1, raised |-> FALSE]
        ELSE [result |-> [result EXCEPT !.status = "failed",
                              !.error = "create_dispatch returned False"],
              calls |-> 1, raised |-> FALSE]

\* trigger_workflow: the record it returns, the number of remote dispatches
\* it issues and whether an exception leaves it.
trigger_workflow(repo_config, dry, outcome, t) ==
    LET result == [repo |-> repo_config.name,
                   workflow_file |-> repo_config.workflow_file,
                   branch |-> repo_config.branch,
                   status |-> "unknown", run_id |-> NoId, error |-> None,
                   triggered_at |-> t]
    IN  IF dry
        THEN [result |-> [result EXCEPT !.status = "dry_run"],
              calls |-> 0, raised |-> FALSE]
        ELSE IF outcome.ret = "GithubException"
        THEN [result |-> [result EXCEPT !.status = "error",
                              !.error = outcome.msg],
              calls |-> 1, raised |-> FALSE]
        ELSE IF outcome.ret = "True"
        THEN [result |-> [result EXCEPT !.status = "triggered"],
              calls |-> 1, raised |-> FALSE]
        ELSE [result |-> [result EXCEPT !.status = "failed",
                              !.error = "create_dispatch returned False"],
              calls |-> 1, raised |-> FALSE]

\* A mutant of Window: the whole listing is inspected.
WindowAll(listed) == listed

\* runs[:10]
Window(listed) == SubSeq(listed, 1, Min(RunWindow, Len(listed)))

\* A mutant of CreatedAfter: a run created at the trigger time is rejected.
CreatedStrictlyAfter(run, triggered_after) == run.created_at > triggered_after

\* run.created_at.replace(tzinfo=timezone.utc) >= triggered_after
CreatedAfter(run, triggered_after) == run.created_at >= triggered_after

\* The for loop of get_latest_run_id over the window.
RECURSIVE FirstRun(_, _)
FirstRun(listed, triggered_after) ==
    IF listed = <<>> THEN NoId
    ELSE IF CreatedAfter(Head(listed), triggered_after) THEN Head(listed).id
    ELSE FirstRun(Tail(listed), triggered_after)

\* get_latest_run_id: a listing that raised GithubException gives None.
get_latest_run_id(listing, triggered_after) ==
    IF listing.ok THEN FirstRun(Window(listing.runs), triggered_after)
    ELSE NoId

\* A mutant of NeedsRunId: every record is resolved.
NeedsRunIdAlways(result) == TRUE

\* if result["status"] == "triggered"
NeedsRunId(result) == result.status = "triggered"

\* if run_id: (None and 0 are falsy)
Truthy(v) == v # NoId /\ v # 0

\* Listings the remote may return for a workflow: len runs, of which those
\* from position first on were created at time t and the earlier ones before
\* the trigger time (first = 0: none was created at t).  The run at position
\* first has id NewRunId, every other run an id of its own.
MkRuns(len, first, t, old) ==
    [j \in 1..len |->
        [id |-> IF j = first THEN NewRunId ELSE NewRunId + j,
         created_at |-> IF first # 0 /\ j >= first THEN t ELSE old]]

Listings(tt) ==
    {[ok |-> FALSE, runs |-> <<>>]}
    \cup {[ok |-> TRUE, runs |-> MkRuns(p[1], p[2], t, tt - 1)] :
            p \in {q \in (0..MaxRuns) \X {0, 1, RunWindow, RunWindow + 1} :
                      q[2] <= q[1]},
            t \in {tt, tt + 1}}

\* The output main() writes.
TriggerOutput ==
    [written |-> TRUE,
     trigger_time |-> trigger_time,
     total_repos |-> Len(repos),
     triggered |-> Cardinality({k \in DOMAIN results :
                                   results[k].status = "triggered"}),
     failed |-> Cardinality({k \in DOMAIN results :
                                results[k].status \in {"failed", "error"}}),
     dry_run |-> dry_run,
     runs |-> results]

\* Neither pass has started.
PassesIdle ==
    /\ now = 1
    /\ repos = <<>>
    /\ dry_run = FALSE
    /\ trigger_time = 0
    /\ results = <<>>
    /\ i = 0
    /\ output = NoFile
    /\ dispatch_calls = [k \in 1..MaxRepos |-> 0]
    /\ lookup_calls = [k \in 1..MaxRepos |-> 0]
    /\ run_id_writes = [k \in 1..MaxRepos |-> 0]
    /\ lookup = NoLookup
    /\ op = NoOp
    /\ args = NoArgs
    /\ runs = <<>>
    /\ start_time = 0
    /\ elapsed = 0
    /\ pending_runs = <<>>
    /\ all_completed = FALSE
    /\ completed_count = 0
    /\ collected = <<>>
    /\ collection = NoFile

\* Nothing examined, nothing aggregated.
UnitsIdle ==
    /\ one_run = <<>>
    /\ one_listing = <<>>
    /\ one_result = <<>>
    /\ documents = <<>>
    /\ reports = <<>>
    /\ aggregated = NoFile

Init ==
    /\ pc = "t_start"
    /\ now = 1
    /\ \E n \in 0..MaxRepos : repos = [k \in 1..n |-> RepoConfig(k)]
    /\ dry_run \in BOOLEAN
    /\ trigger_time = 0
    /\ results = <<>>
    /\ i = 0
    /\ output = NoFile
    /\ dispatch_calls = [k \in 1..MaxRepos |-> 0]
    /\ lookup_calls = [k \in 1..MaxRepos |-> 0]
    /\ run_id_writes = [k \in 1..MaxRepos |-> 0]
    /\ lookup = NoLookup
    /\ op = NoOp
    /\ args = NoArgs
    /\ runs = <<>>
    /\ start_time = 0
    /\ elapsed = 0
    /\ pending_runs = <<>>
    /\ all_completed = FALSE
    /\ completed_count = 0
    /\ collected = <<>>
    /\ collection = NoFile
    /\ UnitsIdle

\* main(): no repositories, exit before anything is written.
TriggerNoRepos ==
    /\ pc = "t_start"
    /\ repos = <<>>
    /\ pc' = "t_exit"
    /\ op' = NoOp
    /\ UNCHANGED <<unit_vars, collect_vars, now, repos, dry_run, trigger_time, results, i, output,
                   dispatch_calls, lookup_calls, run_id_writes, lookup>>

\* main(): trigger_time = now, results = [].
TriggerStart ==
    /\ pc = "t_start"
    /\ repos # <<>>
    /\ trigger_time' = now
    /\ results' = <<>>
    /\ i' = 1
    /\ pc' = "t_dispatch"
    /\ op' = NoOp
    /\ UNCHANGED <<unit_vars, collect_vars, now, repos, dry_run, output,
                   dispatch_calls, lookup_calls, run_id_writes, lookup>>

\* One iteration of the dispatch loop.  A remote dispatch takes a second, so
\* that triggered_at differs from record to record.
TriggerOne ==
    /\ pc = "t_dispatch"
    /\ i <= Len(repos)
    /\ \E outcome \in DispatchOutcomes :
        LET r == trigger_workflow(repos[i], dry_run, outcome, now)
        IN  /\ dispatch_calls' =
                  [dispatch_calls EXCEPT ![i] = @ + r.calls]
            /\ op' = IF r.calls > 0
                     THEN [kind |-> "dispatch", rec |-> i, outcome |-> outcome]
                     ELSE NoOp
            /\ now' = now + r.calls
            /\ IF r.raised
               THEN /\ pc' = "t_crashed"
                    /\ UNCHANGED <<results, i>>
               ELSE /\ results' = Append(results, r.result)
                    /\ i' = IF i < Len(repos) THEN i + 1 ELSE 1
                    /\ pc' = IF i < Len(repos) THEN "t_dispatch"
                             ELSE IF dry_run THEN "t_output" ELSE "t_grace"
    /\ UNCHANGED <<unit_vars, collect_vars, repos, dry_run, trigger_time, output,
                   lookup_calls, run_id_writes, lookup>>

\* time.sleep(5)
TriggerGrace ==
    /\ pc = "t_grace"
    /\ now' = now + GraceDelay
    /\ pc' = "t_resolve"
    /\ i' = 1
    /\ op' = NoOp
    /\ UNCHANGED <<unit_vars, collect_vars, repos, dry_run, trigger_time, results, output,
                   dispatch_calls, lookup_calls, run_id_writes, lookup>>

\* A mutant of AfterResolve: the dispatch loop is run again after the
\* run-id loop.
AfterResolveDispatchAgain ==
    /\ i' = IF i < Len(results) THEN i + 1 ELSE 1
    /\ pc' = IF i < Len(results) THEN "t_resolve" ELSE "t_dispatch"

AfterResolve ==
    /\ i' = IF i < Len(results) THEN i + 1 ELSE 1
    /\ pc' = IF i < Len(results) THEN "t_resolve" ELSE "t_output"

\* One iteration of the run-id loop, for a record that is looked up.
ResolveLookup ==
    /\ pc = "t_resolve"
    /\ i <= Len(results)
    /\ NeedsRunId(results[i])
    /\ \E listing \in Listings(trigger_time) :
        LET run_id == get_latest_run_id(listing, trigger_time)
        IN  /\ lookup' = [rec |-> i, ok |-> listing.ok, runs |-> listing.runs]
            /\ IF Truthy(run_id)
               THEN /\ results' = [results EXCEPT ![i].run_id = run_id]
                    /\ run_id_writes' = [run_id_writes EXCEPT ![i] = @ + 1]
               ELSE UNCHANGED <<results, run_id_writes>>
    /\ lookup_calls' = [lookup_calls EXCEPT ![i] = @ + 1]
    /\ op' = [kind |-> "lookup", rec |-> i, outcome |-> None]
    /\ AfterResolve
    /\ UNCHANGED <<unit_vars, collect_vars, now, repos, dry_run, trigger_time, output, dispatch_calls>>

\* One iteration of the run-id loop, for a record that is passed over.
ResolveSkip ==
    /\ pc = "t_resolve"
    /\ i <= Len(results)
    /\ ~NeedsRunId(results[i])
    /\ op' = NoOp
    /\ AfterResolve
    /\ UNCHANGED <<unit_vars, collect_vars, now, repos, dry_run, trigger_time, results, output,
                   dispatch_calls, lookup_calls, run_id_writes, lookup>>

\* json.dump(output, f)
TriggerWrite ==
    /\ pc = "t_output"
    /\ output' = TriggerOutput
    /\ pc' = "t_done"
    /\ lookup' = NoLookup
    /\ op' = NoOp
    /\ UNCHANGED <<unit_vars, collect_vars, now, repos, dry_run, trigger_time, results, i,
                   dispatch_calls, lookup_calls, run_id_writes>>

\* ------------------------------------------------------ collect_reports.py

\* A mutant of LoadedRun: a loaded record counts as completed.
LoadedRunCompleted(r) ==
    [repo |-> r.repo, workflow_file |-> r.workflow_file, branch |-> r.branch,
     status |-> r.status, run_id |-> r.run_id, error |-> r.error,
     triggered_at |-> r.triggered_at,
     run_status |-> Absent, run_conclusion |-> Absent, completed |-> TRUE]

\* The record as main() loads it: the poll keys are absent until
\* wait_for_completion writes them (run.get("completed") is then None, falsy).
LoadedRun(r) ==
    [repo |-> r.repo, workflow_file |-> r.workflow_file, branch |-> r.branch,
     status |-> r.status, run_id |-> r.run_id, error |-> r.error,
     triggered_at |-> r.triggered_at,
     run_status |-> Absent, run_conclusion |-> Absent, completed |-> FALSE]

\* What the remote answers to a status query.
StatusResponses ==
    {[ok |-> TRUE, status |-> "in_progress", conclusion |-> None, msg |-> None],
     [ok |-> TRUE, status |-> "completed", conclusion |-> "success", msg |-> None],
     [ok |-> TRUE, status |-> "completed", conclusion |-> "failure", msg |-> None]}
    \cup {[ok |-> FALSE, status |-> None, conclusion |-> None,
            msg |-> "502 Bad Gateway"]}

\* check_run_status
check_run_status(resp) ==
    IF resp.ok
    THEN [status |-> resp.status, conclusion |-> resp.conclusion,
          completed |-> (resp.status = "completed"), error |-> None]
    ELSE [status |-> "error", conclusion |-> None,
          completed |-> FALSE, error |-> resp.msg]

\* A mutant of StoreStatus: the run id is dropped with the update.
StoreStatusDropsId(run, status) ==
    [run EXCEPT !.run_status = status.status,
                !.run_conclusion = status.conclusion,
                !.completed = IF status.completed THEN TRUE ELSE @,
                !.run_id = NoId]

\* A mutant of StoreStatus: the trigger status is overwritten.
StoreStatusInStatus(run, status) ==
    [run EXCEPT !.status = status.status,
                !.run_status = status.status,
                !.run_conclusion = status.conclusion,
                !.completed = IF status.completed THEN TRUE ELSE @]

\* A mutant of StoreStatus: a failed query marks the run completed.
StoreStatusErrorCompletes(run, status) ==
    [run EXCEPT !.run_status = status.status,
                !.run_conclusion = status.conclusion,
                !.completed = IF status.completed \/ status.status = "error"
                              THEN TRUE ELSE @]

\* wait_for_completion: what one query writes on the record.
StoreStatus(run, status) ==
    [run EXCEPT !.run_status = status.status,
                !.run_conclusion = status.conclusion,
                !.completed = IF status.completed THEN TRUE ELSE @]

\* A mutant of SkipCompleted: completed records are polled again.
SkipNever(run) == FALSE

\* if run.get("completed"): continue
SkipCompleted(run) == run.completed

\* A mutant of BreakAfterRound: the loop only stops at the deadline.
BreakNever(all_done) == FALSE

\* if all_completed: break
BreakAfterRound(all_done) == all_done

\* A mutant of PendingFrom: every record is pending, run_id or not.
PendingAll(rs, k) == [j \in 1..Len(rs) |-> j]

\* pending_runs = [r for r in runs if r.get("run_id")]
RECURSIVE PendingFrom(_, _)
PendingFrom(rs, k) ==
    IF k > Len(rs) THEN <<>>
    ELSE IF Truthy(rs[k].run_id) THEN <<k>> \o PendingFrom(rs, k + 1)
    ELSE PendingFrom(rs, k + 1)

timeout_seconds == args.timeout * SecondsPerMinute

\* "nim-scan-report" in artifact.name
CanonicalToken == "nim-scan-report"
\* ["docker-image-report", "hosted-nim-report"]
FallbackTokens == {"docker-image-report", "hosted-nim-report"}

\* The artifact names a run can carry.
ArtifactNames ==
    {"nim-scan-report-linux", "docker-image-report", "hosted-nim-report",
     "build-logs"}

\* The tokens that are substrings of an artifact name.
Tokens(name) ==
    CASE name = "nim-scan-report-linux" -> {"nim-scan-report"}
      [] name = "docker-image-report" -> {"docker-image-report"}
      [] name = "hosted-nim-report" -> {"hosted-nim-report"}
      [] OTHER -> {}

\* token in artifact.name
Contains(name, token) == token \in Tokens(name)

IsPrimary(name) == Contains(name, CanonicalToken)

\* A mutant of IsFallback: only the first alternate token is looked for.
IsFallbackFirstToken(name) == Contains(name, "docker-image-report")

\* any(name in artifact.name for name in [...])
IsFallback(name) == \E t \in FallbackTokens : Contains(name, t)

\* n copies of x.
Copies(n, x) == [j \in 1..n |-> x]

\* An artifact listing: p canonical artifacts of which sp download, f
\* artifacts named fname of which sf download, o other artifacts.  fetched[k]
\* is what download_artifact returns for artifact k.
MkListing(p, f, o, sp, sf, fname) ==
    [ok |-> TRUE, msg |-> None,
     names |-> Copies(p, "nim-scan-report-linux") \o Copies(f, fname)
               \o Copies(o, "build-logs"),
     fetched |-> Copies(p - sp, FALSE) \o Copies(sp, TRUE)
                 \o Copies(f - sf, FALSE) \o Copies(sf, TRUE)
                 \o Copies(o, TRUE)]

\* get_repo, get_workflow_run or get_artifacts raises GithubException.
FailedListing(m) == [ok |-> FALSE, msg |-> m, names |-> <<>>, fetched |-> <<>>]

ArtifactListings ==
    {FailedListing(m) : m \in ErrorMessages}
    \cup {MkListing(c[1], c[2], c[3], c[4], c[5], fname) :
            c \in {q \in (0..MaxArtifacts) \X (0..MaxArtifacts)
                          \X (0..MaxArtifacts) \X (0..MaxArtifacts)
                          \X (0..MaxArtifacts) :
                      /\ q[1] + q[2] + q[3] <= MaxArtifacts
                      /\ q[4] <= q[1]
                      /\ q[5] <= q[2]},
            fname \in FallbackTokens}

\* The listings of at most one artifact: what the collection pass meets per
\* run; collect_one is examined on all of ArtifactListings below.
RunListings == {l \in ArtifactListings : Len(l.names) <= 1}

\* repo_name.replace("/", "-")
DirName(repo_name) ==
    [k \in DOMAIN repo_name |-> IF repo_name[k] = "/" THEN "-" ELSE repo_name[k]]

\* No directory.
NoDir == <<>>

\* A mutant of SkipReason: the completed flag is not looked at.
SkipReasonIgnoresCompleted(run) ==
    IF ~Truthy(run.run_id) THEN "no_run_id" ELSE None

\* if not run_id: ... elif not run.get("completed"): ...
SkipReason(run) ==
    IF ~Truthy(run.run_id) THEN "no_run_id"
    ELSE IF ~run.completed THEN "not_completed"
    ELSE None

\* A mutant of ListingError: the message of the exception is dropped.
ListingErrorNoMessage(run, listing) ==
    [repo |-> run.repo, status |-> "error", error |-> None]

\* except GithubException as e
ListingError(run, listing) ==
    [repo |-> run.repo, status |-> "error", error |-> listing.msg]

\* collect_reports, the body of its loop for one record: the result it
\* appends, whether the remote listing is asked for, the directory it creates
\* (NoDir: none) and the artifacts it downloads, as positions of the
\* listing.
collect_one(run, listing) ==
    LET primary == {k \in DOMAIN listing.names : IsPrimary(listing.names[k])}
        fallback == {k \in DOMAIN listing.names : IsFallback(listing.names[k])}
        found == \E k \in primary : listing.fetched[k]
    IN  IF SkipReason(run) # None
        THEN [result |-> [repo |-> run.repo, status |-> "skipped",
                          reason |-> SkipReason(run)],
              listed |-> FALSE, mkdir |-> NoDir, downloads |-> {}]
        ELSE IF ~listing.ok
        THEN [result |-> ListingError(run, listing),
              listed |-> TRUE, mkdir |-> NoDir, downloads |-> {}]
        ELSE IF found
        THEN [result |-> [repo |-> run.repo, status |-> "collected",
                          output_dir |-> DirName(run.repo)],
              listed |-> TRUE, mkdir |-> DirName(run.repo),
              downloads |-> primary]
        ELSE IF fallback # {}
        THEN [result |-> [repo |-> run.repo, status |-> "partial",
                          output_dir |-> DirName(run.repo)],
              listed |-> TRUE, mkdir |-> DirName(run.repo),
              downloads |-> primary \cup fallback]
        ELSE [result |-> [repo |-> run.repo, status |-> "no_artifacts"],
              listed |-> TRUE, mkdir |-> DirName(run.repo),
              downloads |-> primary]

\* main(): the runs file of a dry run, nothing to collect.
CollectDryRun ==
    /\ pc = "t_done"
    /\ output.dry_run
    /\ pc' = "c_exit"
    /\ now' = LaunchTime
    /\ op' = NoOp
    /\ UNCHANGED <<unit_vars, i, trigger_vars, collect_vars>>

\* main(): load the runs file; the pass is launched at LaunchTime with its
\* arguments.
CollectStart ==
    /\ pc = "t_done"
    /\ ~output.dry_run
    /\ output.runs # <<>>
    /\ \E t \in 0..MaxTimeoutMinutes, p \in PollIntervals, s \in BOOLEAN :
        /\ args' = [timeout |-> t, poll_interval |-> p, skip_wait |-> s]
        /\ pc' = IF s THEN "c_collect" ELSE "w_start"
    /\ runs' = [k \in DOMAIN output.runs |-> LoadedRun(output.runs[k])]
    /\ now' = LaunchTime
    /\ i' = 1
    /\ op' = NoOp
    /\ UNCHANGED <<unit_vars, trigger_vars, wait_vars, collected, collection>>

\* wait_for_completion: no record has a run_id.
WaitNothing ==
    /\ pc = "w_start"
    /\ PendingFrom(runs, 1) = <<>>
    /\ pc' = "c_collect"
    /\ i' = 1
    /\ op' = NoOp
    /\ UNCHANGED <<unit_vars, now, trigger_vars, args, runs, wait_vars, collected, collection>>

\* wait_for_completion: start_time and pending_runs; the clock may move
\* before the loop reads it.
WaitStart ==
    /\ pc = "w_start"
    /\ PendingFrom(runs, 1) # <<>>
    /\ start_time' = now
    /\ pending_runs' = PendingFrom(runs, 1)
    /\ \E d \in Latencies : now' = now + d
    /\ pc' = "w_top"
    /\ op' = NoOp
    /\ UNCHANGED <<unit_vars, i, trigger_vars, args, runs, elapsed, all_completed,
                   completed_count, collected, collection>>

\* The locals of wait_for_completion are gone when it returns.
WaitReturn ==
    /\ pc' = "c_collect"
    /\ i' = 1
    /\ start_time' = 0
    /\ elapsed' = 0
    /\ pending_runs' = <<>>
    /\ all_completed' = FALSE
    /\ completed_count' = 0

\* if elapsed > timeout_seconds: break
WaitTimeout ==
    /\ pc = "w_top"
    /\ now - start_time > timeout_seconds
    /\ WaitReturn
    /\ op' = NoOp
    /\ UNCHANGED <<unit_vars, now, trigger_vars, args, runs, collected, collection>>

\* The top of a round.
WaitRound ==
    /\ pc = "w_top"
    /\ ~(now - start_time > timeout_seconds)
    /\ elapsed' = now - start_time
    /\ all_completed' = TRUE
    /\ completed_count' = 0
    /\ i' = 1
    /\ pc' = "w_poll"
    /\ op' = NoOp
    /\ UNCHANGED <<unit_vars, now, trigger_vars, args, runs, start_time, pending_runs,
                   collected, collection>>

AfterPoll ==
    /\ i' = IF i < Len(pending_runs) THEN i + 1 ELSE 1
    /\ pc' = IF i < Len(pending_runs) THEN "w_poll" ELSE "w_end"

\* A record of the round that is already completed.
PollSkip ==
    /\ pc = "w_poll"
    /\ i <= Len(pending_runs)
    /\ SkipCompleted(runs[pending_runs[i]])
    /\ completed_count' = completed_count + 1
    /\ AfterPoll
    /\ op' = NoOp
    /\ UNCHANGED <<unit_vars, now, trigger_vars, args, runs, start_time, elapsed,
                   pending_runs, all_completed, collected, collection>>

\* A record of the round that is queried.
PollQuery ==
    /\ pc = "w_poll"
    /\ i <= Len(pending_runs)
    /\ ~SkipCompleted(runs[pending_runs[i]])
    /\ \E resp \in StatusResponses :
        LET k == pending_runs[i]
            status == check_run_status(resp)
        IN  /\ runs' = [runs EXCEPT ![k] = StoreStatus(@, status)]
            /\ IF status.completed
               THEN /\ completed_count' = completed_count + 1
                    /\ UNCHANGED all_completed
               ELSE /\ all_completed' = FALSE
                    /\ UNCHANGED completed_count
            /\ op' = [kind |-> "status", rec |-> k, outcome |-> resp]
    /\ AfterPoll
    /\ UNCHANGED <<unit_vars, now, trigger_vars, args, start_time, elapsed, pending_runs,
                   collected, collection>>

\* if all_completed: break
WaitAllCompleted ==
    /\ pc = "w_end"
    /\ BreakAfterRound(all_completed)
    /\ WaitReturn
    /\ op' = NoOp
    /\ UNCHANGED <<unit_vars, now, trigger_vars, args, runs, collected, collection>>

\* time.sleep(poll_interval_seconds) with a negative argument: ValueError
\* leaves wait_for_completion and main().
WaitSleepRaises ==
    /\ pc = "w_end"
    /\ ~BreakAfterRound(all_completed)
    /\ args.poll_interval < 0
    /\ pc' = "w_crashed"
    /\ op' = NoOp
    /\ UNCHANGED <<unit_vars, now, i, trigger_vars, args, runs, wait_vars, collected, collection>>

\* time.sleep(poll_interval_seconds)
WaitSleep ==
    /\ pc = "w_end"
    /\ ~BreakAfterRound(all_completed)
    /\ args.poll_interval >= 0
    /\ now' = now + args.poll_interval
    /\ pc' = "w_top"
    /\ op' = [kind |-> "sleep", rec |-> 0, outcome |-> None]
    /\ UNCHANGED <<unit_vars, i, trigger_vars, args, runs, wait_vars, collected, collection>>

AfterCollect ==
    /\ i' = IF i < Len(runs) THEN i + 1 ELSE 1
    /\ pc' = IF i < Len(runs) THEN "c_collect" ELSE "c_output"

\* collect_reports: one iteration of its loop, for a record without a run_id
\* or not completed.
CollectSkip ==
    /\ pc = "c_collect"
    /\ i <= Len(runs)
    /\ SkipReason(runs[i]) # None
    /\ LET r == collect_one(runs[i], FailedListing(None))
       IN  /\ collected' = Append(collected, r.result)
           /\ op' = [kind |-> "none", rec |-> i,
                     outcome |-> [msg |-> None, mkdir |-> r.mkdir,
                                  downloads |-> r.downloads]]
    /\ AfterCollect
    /\ UNCHANGED <<unit_vars, now, trigger_vars, args, runs, wait_vars, collection>>

\* collect_reports: one iteration of its loop, for a completed run.
CollectOne ==
    /\ pc = "c_collect"
    /\ i <= Len(runs)
    /\ SkipReason(runs[i]) = None
    /\ \E listing \in RunListings :
        LET r == collect_one(runs[i], listing)
        IN  /\ collected' = Append(collected, r.result)
            /\ op' = [kind |-> IF r.listed THEN "artifacts" ELSE "none",
                      rec |-> i,
                      outcome |-> [msg |-> listing.msg, mkdir |-> r.mkdir,
                                   downloads |-> r.downloads]]
    /\ AfterCollect
    /\ UNCHANGED <<unit_vars, now, trigger_vars, args, runs, wait_vars, collection>>

\* The number of results with a status among ss.
Count(ss) == Cardinality({k \in DOMAIN collected : collected[k].status \in ss})

\* main(): the summary and collection-results.json.
CollectWrite ==
    /\ pc = "c_output"
    /\ collection' =
          [written |-> TRUE,
           collection_time |-> now,
           results |-> collected,
           summary |-> [collected |-> Count({"collected"}),
                        partial |-> Count({"partial"}),
                        failed |-> Count({"error", "no_artifacts",
                                          "skipped"})]]
    /\ pc' = "c_done"
    /\ op' = NoOp
    /\ UNCHANGED <<unit_vars, now, i, trigger_vars, args, runs, wait_vars, collected>>

Next ==
    \/ TriggerNoRepos
    \/ TriggerStart
    \/ TriggerOne
    \/ TriggerGrace
    \/ ResolveLookup
    \/ ResolveSkip
    \/ TriggerWrite
    \/ CollectDryRun
    \/ CollectStart
    \/ WaitNothing
    \/ WaitStart
    \/ WaitTimeout
    \/ WaitRound
    \/ PollSkip
    \/ PollQuery
    \/ WaitAllCompleted
    \/ WaitSleepRaises
    \/ WaitSleep
    \/ CollectSkip
    \/ CollectOne
    \/ CollectWrite

\* ------------------------------------------------------------------ claims

RecordFields ==
    {"repo", "workflow_file", "branch", "status", "run_id", "error",
     "triggered_at"}

\* The record of repository k where it lives: in the trigger pass's results,
\* in the output file, in the collection pass's runs.
Rec(k) ==
    IF k \in DOMAIN runs THEN runs[k]
    ELSE IF output.written THEN output.runs[k]
    ELSE results[k]

WaitPcs == {"w_start", "w_top", "w_poll", "w_end"}

\* The records wait_for_completion polls, and whether all are completed.
Resolvable == {k \in DOMAIN runs : Truthy(runs[k].run_id)}
AllResolvableCompleted == \A k \in Resolvable : runs[k].completed

\* C1: no dispatch outcome stops the trigger pass: while the dispatch loop
\* runs, one record per repository already visited has been appended, in
\* target order, and (outside dry-run) each of them was dispatched once; the
\* output has exactly one runs entry per targeted repository.
C1_EveryRepoDispatched ==
    /\ pc # "t_crashed"
    /\ pc = "t_dispatch" => Len(results) = i - 1
    /\ \A k \in DOMAIN results :
        /\ results[k].repo = repos[k].name
        /\ ~dry_run => dispatch_calls[k] = 1
    /\ pc \notin {"t_start", "t_dispatch", "t_exit"} =>
        Len(results) = Len(repos)
    /\ output.written =>
        /\ Len(output.runs) = Len(repos)
        /\ output.total_repos = Len(repos)
        /\ \A k \in DOMAIN output.runs : output.runs[k].repo = repos[k].name

C1_Witness ==
    /\ output.written
    /\ Len(output.runs) = 2
    /\ output.runs[1].status = "error"
    /\ output.runs[2].status = "triggered"
    /\ dispatch_calls[2] = 1

\* C2: outside dry-run a dispatch step issues one remote dispatch for its
\* repository and the record it appends has the status of the outcome
\* (True: triggered without error; False: failed; GithubException: error with
\* the exception's message); no later step changes the status of a record.
C2_StatusFromDispatch ==
    [][/\ op'.kind = "dispatch" =>
            LET k == op'.rec
                o == op'.outcome
            IN  /\ dispatch_calls'[k] = dispatch_calls[k] + 1
                /\ dispatch_calls'[k] = 1
                /\ Len(results') = k
                /\ o.ret = "True" =>
                      /\ results'[k].status = "triggered"
                      /\ results'[k].error = None
                /\ o.ret = "False" => results'[k].status = "failed"
                /\ o.ret = "GithubException" =>
                      /\ results'[k].status = "error"
                      /\ results'[k].error = o.msg
       /\ (pc = "t_dispatch" /\ ~dry_run) => op'.kind = "dispatch"
       /\ op'.kind # "dispatch" => dispatch_calls' = dispatch_calls
       /\ \A k \in DOMAIN results : Rec(k)'.status = Rec(k).status
      ]_vars

C2_Witness ==
    /\ pc = "c_done"
    /\ Len(runs) = 2
    /\ runs[1].status = "error"
    /\ runs[1].error = "403 Forbidden"
    /\ runs[2].status = "triggered"
    /\ runs[2].completed

\* C3: in a dry run no remote call is made, every record is dry_run without
\* a run_id, and the output has one entry per repository with the fields of
\* a real trigger and triggered = failed = 0.
C3_DryRunNoRemoteCall ==
    dry_run =>
        /\ op.kind = "none"
        /\ \A k \in 1..MaxRepos :
            dispatch_calls[k] = 0 /\ lookup_calls[k] = 0
        /\ \A k \in DOMAIN results :
            /\ results[k].status = "dry_run"
            /\ results[k].run_id = NoId
            /\ DOMAIN results[k] = RecordFields
        /\ output.written =>
            /\ Len(output.runs) = Len(repos)
            /\ output.runs = results
            /\ output.triggered = 0
            /\ output.failed = 0
            /\ output.dry_run

C3_Witness ==
    /\ dry_run
    /\ output.written
    /\ Len(output.runs) = 2
    /\ pc = "c_exit"

\* C4: a record with a run_id is triggered, and no run-id lookup is made for
\* a record that is not triggered.
C4_RunIdOnlyForTriggered ==
    /\ \A k \in DOMAIN results :
        /\ results[k].run_id # NoId => results[k].status = "triggered"
        /\ results[k].status # "triggered" => lookup_calls[k] = 0
        /\ lookup_calls[k] <= 1
    /\ op.kind = "lookup" => results[op.rec].status = "triggered"

C4_Witness ==
    /\ pc = "t_output"
    /\ Len(results) = 2
    /\ results[1].status = "failed"
    /\ results[2].status = "triggered"
    /\ results[2].run_id # NoId
    /\ lookup_calls[2] = 1

\* The positions of a listing among the RunWindow first whose run was created
\* at or after the trigger time.
Qualifying(listed) ==
    {j \in 1..Len(listed) :
        j <= RunWindow /\ listed[j].created_at >= trigger_time}

\* C5: after the lookup of a record, its run_id is the id of the first run
\* among the 10 first of the listing created at or after the trigger time;
\* with no such run, or a failed listing, the record has no run_id, nothing
\* is raised and the loop goes on to the next record.
C5_FirstRunInWindow ==
    /\ lookup.rec # 0 =>
        LET r == results[lookup.rec]
            Q == Qualifying(lookup.runs)
        IN  /\ (lookup.ok /\ Q # {}) =>
                \E j \in Q : /\ \A m \in Q : j <= m
                             /\ r.run_id = lookup.runs[j].id
            /\ (~lookup.ok \/ Q = {}) => r.run_id = NoId
            /\ pc \in {"t_resolve", "t_output"}
            /\ pc = "t_resolve" => i > lookup.rec
            /\ op.kind = "lookup" =>
                /\ op.rec = lookup.rec
                /\ IF op.rec < Len(results)
                   THEN pc = "t_resolve" /\ i = op.rec + 1
                   ELSE pc = "t_output"
    /\ pc = "t_output" /\ ~dry_run =>
        \A k \in DOMAIN results :
            results[k].status = "triggered" => lookup_calls[k] = 1

C5_Witness ==
    /\ lookup.rec = 2
    /\ lookup.ok
    /\ Len(lookup.runs) > RunWindow
    /\ Qualifying(lookup.runs) = {RunWindow}
    /\ results[2].run_id = NewRunId
    /\ results[1].status = "triggered"
    /\ results[1].run_id = NoId

\* C6: a run_id is assigned at most once, and a record that has a run_id
\* keeps it through every later step of the trigger pass, the poll loop and
\* the collection.
C6_RunIdWrittenOnce ==
    [][\A k \in DOMAIN results :
          /\ Rec(k).run_id # NoId => Rec(k)'.run_id = Rec(k).run_id
          /\ run_id_writes'[k] <= 1
          /\ Rec(k)'.run_id # Rec(k).run_id =>
                run_id_writes'[k] = run_id_writes[k] + 1
      ]_vars

C6_Witness ==
    /\ pc = "c_done"
    /\ Len(runs) = 2
    /\ runs[1].run_id = NewRunId
    /\ runs[1].completed
    /\ collected[1].status = "collected"
    /\ runs[2].run_id = NoId

\* C7: a record marked completed stays completed, its poll status and
\* conclusion are not written again and no status query is made for it.
C7_CompletedIsFinal ==
    [][\A k \in DOMAIN runs :
          runs[k].completed =>
              /\ runs'[k] = runs[k]
              /\ ~(op'.kind = "status" /\ op'.rec = k)
      ]_vars

C7_Witness ==
    /\ pc = "w_poll"
    /\ i = 2
    /\ op.kind = "none"
    /\ elapsed > 0
    /\ runs[pending_runs[1]].completed
    /\ ~runs[pending_runs[2]].completed

C9_StopsWhenAllCompleted ==
    [][(pc \in WaitPcs /\ AllResolvableCompleted) =>
          /\ op'.kind \notin {"status", "sleep"}
          /\ pc' \in {"w_poll", "w_end", "c_collect"}
          /\ pc \in {"w_start", "w_end"} => pc' = "c_collect"
          /\ now' = now
      ]_vars

C9_Witness ==
    /\ pc = "c_collect"
    /\ collected = <<>>
    /\ ~args.skip_wait
    /\ Cardinality(Resolvable) = 2
    /\ AllResolvableCompleted
    /\ now > LaunchTime + 1

\* C10 as claimed: no sleep of the poll loop ends after start_time +
\* timeout.
C10_NoSleepPastDeadline ==
    op.kind = "sleep" => now <= start_time + timeout_seconds

\* C11 as claimed: with a deadline of zero the poll loop never sleeps, makes
\* no status query for a record it has already queried, and marks a record
\* completed only on a query that reports it completed.
C11_ZeroDeadlineNoSleep ==
    [][(pc \in WaitPcs /\ args.timeout = 0) =>
          /\ op'.kind # "sleep"
          /\ op'.kind = "status" => runs[op'.rec].run_status = Absent
          /\ \A k \in DOMAIN runs :
                (runs'[k].completed /\ ~runs[k].completed) =>
                    /\ op'.kind = "status"
                    /\ op'.rec = k
                    /\ op'.outcome.ok
                    /\ op'.outcome.status = "completed"
      ]_vars

\* C12: a record without a run_id, or not completed, is collected without a
\* remote call, without a directory and without a download; its result is
\* skipped/no_run_id for the former and skipped/not_completed for the latter
\* (no_run_id first), and the loop goes on.
C12_SkippedWithoutRemoteCall ==
    [][(/\ pc = "c_collect"
        /\ i <= Len(runs)
        /\ (~Truthy(runs[i].run_id) \/ ~runs[i].completed)) =>
          /\ op'.kind = "none"
          /\ op'.rec = i
          /\ op'.outcome.mkdir = NoDir
          /\ op'.outcome.downloads = {}
          /\ collected' =
                Append(collected,
                       [repo |-> runs[i].repo, status |-> "skipped",
                        reason |-> IF ~Truthy(runs[i].run_id)
                                   THEN "no_run_id" ELSE "not_completed"])
          /\ pc' \in {"c_collect", "c_output"}
      ]_vars

C12_Witness ==
    /\ pc = "c_output"
    /\ Len(collected) = 2
    /\ collected[1].status = "skipped"
    /\ collected[1].reason = "no_run_id"
    /\ ~runs[1].completed
    /\ collected[2].status = "skipped"
    /\ collected[2].reason = "not_completed"
    /\ Truthy(runs[2].run_id)
    /\ op.kind = "none"
    /\ op.rec = 2

\* C16: each iteration of the collection loop appends exactly one result,
\* for the record in turn, and leaves the earlier results alone; a listing
\* that raises gives that record the status error with the message raised,
\* and the loop goes on with the next record; the file holds one result per
\* record, in record order.
C16_OneResultPerRecord ==
    [][/\ (pc = "c_collect" /\ i <= Len(runs)) =>
            /\ Len(collected) = i - 1
            /\ Len(collected') = i
            /\ SubSeq(collected', 1, i - 1) = collected
            /\ collected'[i].repo = runs[i].repo
            /\ (op'.kind = "artifacts" /\ op'.outcome.msg # None) =>
                  collected'[i] = [repo |-> runs[i].repo, status |-> "error",
                                   error |-> op'.outcome.msg]
            /\ IF i < Len(runs)
               THEN pc' = "c_collect" /\ i' = i + 1
               ELSE pc' = "c_output"
            /\ runs' = runs
       /\ pc = "c_output" =>
            /\ collection'.written
            /\ collection'.results = collected
            /\ Len(collected) = Len(runs)
            /\ \A k \in DOMAIN runs : collected[k].repo = runs[k].repo
      ]_vars

C16_Witness ==
    /\ pc = "c_done"
    /\ collection.written
    /\ Len(collection.results) = 2
    /\ collection.results[1].status = "error"
    /\ collection.results[1].error = "403 Forbidden"
    /\ collection.results[2].status = "collected"

\* C17 as claimed: two distinct repositories never get the same output
\* directory.
C17_DistinctDirectories ==
    \A j, k \in DOMAIN collected :
        (/\ collected[j].status \in {"collected", "partial"}
         /\ collected[k].status \in {"collected", "partial"}
         /\ collected[j].repo # collected[k].repo) =>
            collected[j].output_dir # collected[k].output_dir

\* C21: a run-id lookup is made only after every repository was dispatched,
\* and no dispatch follows a lookup; an artifact listing or download is made
\* only after the poll loop has returned, and no status query or sleep
\* follows it; a step makes at most one remote call.
C21_PhasesSequential ==
    [][/\ op'.kind = "lookup" =>
            /\ Len(results) = Len(repos)
            /\ \A k \in DOMAIN repos : dispatch_calls[k] = 1
            /\ dispatch_calls' = dispatch_calls
       /\ op'.kind = "dispatch" =>
            /\ \A k \in DOMAIN repos : lookup_calls[k] = 0
            /\ lookup_calls' = lookup_calls
            /\ dispatch_calls'[op'.rec] = dispatch_calls[op'.rec] + 1
            /\ \A k \in DOMAIN repos :
                  k # op'.rec => dispatch_calls'[k] = dispatch_calls[k]
       /\ op'.kind = "artifacts" =>
            /\ pc = "c_collect"
            /\ pending_runs = <<>>
            /\ output.written
            /\ runs' = runs
       /\ op'.kind \in {"status", "sleep"} =>
            /\ pc \in WaitPcs
            /\ collected = <<>>
            /\ collected' = <<>>
       /\ op'.kind \in {"status", "sleep", "artifacts"} =>
            /\ dispatch_calls' = dispatch_calls
            /\ lookup_calls' = lookup_calls
      ]_vars

C21_Witness ==
    /\ op.kind = "artifacts"
    /\ op.rec = 2
    /\ ~args.skip_wait
    /\ dispatch_calls = <<1, 1>>
    /\ lookup_calls = <<1, 1>>
    /\ runs[1].run_status = "completed"
    /\ runs[2].run_status = "completed"

\* C23: the pending records are exactly those with a run_id, in record
\* order; a round goes through them once, querying the record in turn
\* exactly when it is not completed; a status query is only ever made for a
\* record with a run_id that is not completed; a record without a run_id
\* keeps no poll status, no conclusion and no completed flag.
C23_RoundQueriesEachPendingOnce ==
    /\ [](pc \in {"w_top", "w_poll", "w_end"} =>
            /\ \A a, b \in DOMAIN pending_runs :
                  a < b => pending_runs[a] < pending_runs[b]
            /\ {pending_runs[a] : a \in DOMAIN pending_runs}
                  = {k \in DOMAIN runs : Truthy(runs[k].run_id)})
    /\ [](\A k \in DOMAIN runs :
            ~Truthy(runs[k].run_id) =>
                /\ runs[k].run_status = Absent
                /\ runs[k].run_conclusion = Absent
                /\ ~runs[k].completed)
    /\ [][/\ (pc = "w_top" /\ pc' = "w_poll") => i' = 1
          /\ pc = "w_poll" =>
                /\ i \in DOMAIN pending_runs
                /\ IF runs[pending_runs[i]].completed
                   THEN op'.kind = "none" /\ runs' = runs
                   ELSE op'.kind = "status" /\ op'.rec = pending_runs[i]
                /\ IF i < Len(pending_runs)
                   THEN pc' = "w_poll" /\ i' = i + 1
                   ELSE pc' = "w_end"
          /\ op'.kind = "status" =>
                /\ pc = "w_poll"
                /\ Truthy(runs[op'.rec].run_id)
                /\ ~runs[op'.rec].completed
                /\ \A k \in DOMAIN runs : k # op'.rec => runs'[k] = runs[k]
         ]_vars

C23_Witness ==
    /\ pc = "w_end"
    /\ Len(runs) = 2
    /\ ~Truthy(runs[1].run_id)
    /\ pending_runs = <<2>>
    /\ op.kind = "status"
    /\ op.rec = 2
    /\ runs[2].run_status = "in_progress"
    /\ now > LaunchTime + 1

\* C24 as claimed: the run whose id a lookup writes on a record was not
\* created before the triggered_at of that record.
C24_RunNotOlderThanDispatch ==
    (op.kind = "lookup" /\ Truthy(results[lookup.rec].run_id)) =>
        \A j \in DOMAIN lookup.runs :
            lookup.runs[j].id = results[lookup.rec].run_id =>
                lookup.runs[j].created_at >= results[lookup.rec].triggered_at

\* C25: a result other than skipped is only given to a record the poll loop
\* of this pass saw completed; with waiting skipped every record is skipped
\* (not_completed if it has a run_id, no_run_id otherwise), no artifact is
\* listed or downloaded, and the summary is 0 collected, 0 partial and every
\* record failed; the three counts of the summary always add up to the
\* number of records.
C25_CollectedOnlyIfSeenCompleted ==
    /\ \A k \in DOMAIN collected :
          collected[k].status # "skipped" =>
              /\ ~args.skip_wait
              /\ runs[k].completed
              /\ runs[k].run_status = "completed"
    /\ (args.skip_wait /\ pc \in {"c_collect", "c_output", "c_done"}) =>
          /\ op.kind # "artifacts"
          /\ \A k \in DOMAIN collected :
                /\ collected[k].status = "skipped"
                /\ collected[k].reason =
                      IF Truthy(output.runs[k].run_id)
                      THEN "not_completed" ELSE "no_run_id"
    /\ collection.written =>
          /\ collection.summary.collected + collection.summary.partial
                + collection.summary.failed = Len(output.runs)
          /\ Len(collection.results) = Len(output.runs)
          /\ args.skip_wait =>
                collection.summary =
                    [collected |-> 0, partial |-> 0,
                     failed |-> Len(output.runs)]

C25_Witness ==
    /\ pc = "c_done"
    /\ args.skip_wait
    /\ Len(output.runs) = 2
    /\ Truthy(output.runs[1].run_id)
    /\ Truthy(output.runs[2].run_id)
    /\ collection.results[1].reason = "not_completed"
    /\ collection.results[2].reason = "not_completed"
    /\ collection.summary.failed = 2

Spec == Init /\ [][Next]_vars

\* The scripts keep running: a step that can be taken is taken.
SpecLive == Init /\ [][Next]_vars /\ WF_vars(Next)

\* C22 as claimed: wait_for_completion, once entered, returns (the
\* collection loop is reached), and it hands back the records of the runs
\* file, none added, removed or reordered.
C22_PollLoopReturns ==
    /\ (pc \in WaitPcs) ~> (pc = "c_collect")
    /\ [](pc \in WaitPcs \cup {"c_collect"} =>
            /\ Len(runs) = Len(output.runs)
            /\ \A k \in DOMAIN runs :
                  /\ runs[k].repo = output.runs[k].repo
                  /\ runs[k].run_id = output.runs[k].run_id)

\* ------------------------------------- collect_reports on one record

\* The records collect_reports can be handed: run_id and completed are the
\* fields its loop reads.
OneRuns ==
    {[repo |-> RepoNames[k], run_id |-> id, completed |-> c] :
        k \in 1..2, id \in {NoId, NewRunId}, c \in BOOLEAN}

InitCollect ==
    /\ pc = "u_collect"
    /\ one_run \in OneRuns
    /\ one_listing \in ArtifactListings
    /\ one_result = <<>>
    /\ documents = <<>>
    /\ reports = <<>>
    /\ aggregated = NoFile
    /\ PassesIdle

\* The body of the loop of collect_reports, on one record and one listing.
CollectUnit ==
    /\ pc = "u_collect"
    /\ one_result' = collect_one(one_run, one_listing)
    /\ pc' = "u_collected"
    /\ UNCHANGED <<now, i, op, trigger_vars, collect_vars, one_run,
                   one_listing, documents, reports, aggregated>>

NextCollect == CollectUnit

SpecCollect == InitCollect /\ [][NextCollect]_vars

\* The listing of the record was obtained: the record is completed, has a
\* run_id, and no remote call raised.
Listed ==
    /\ pc = "u_collected"
    /\ Truthy(one_run.run_id)
    /\ one_run.completed
    /\ one_listing.ok

\* The positions of the listing whose name contains one of the tokens.
Named(tokens) ==
    {k \in DOMAIN one_listing.names :
        Tokens(one_listing.names[k]) \cap tokens # {}}

\* C13 as claimed: when an artifact of the run has a name containing the
\* canonical token, no artifact with a fallback token is downloaded and the
\* status is not partial.
C13_NoFallbackWhenCanonical ==
    (Listed /\ Named({CanonicalToken}) # {}) =>
        /\ one_result.downloads \cap Named(FallbackTokens) = {}
        /\ one_result.result.status # "partial"

\* C14 as claimed: the status is collected only if a canonical artifact was
\* downloaded successfully, partial only if a fallback artifact was, and
\* every matched artifact of the tier is downloaded whatever the others did.
C14_StatusNeedsOneSuccess ==
    Listed =>
        /\ one_result.result.status = "collected" =>
              /\ \E k \in Named({CanonicalToken}) : one_listing.fetched[k]
              /\ Named({CanonicalToken}) \subseteq one_result.downloads
        /\ one_result.result.status = "partial" =>
              /\ \E k \in Named(FallbackTokens) : one_listing.fetched[k]
              /\ Named(FallbackTokens) \subseteq one_result.downloads

\* C15: when the listing is obtained and every download made succeeds, the
\* status follows from the names: collected with a canonical name, else
\* partial with a fallback name, else no_artifacts.
C15_StatusFromNames ==
    (Listed /\ \A k \in one_result.downloads : one_listing.fetched[k]) =>
        one_result.result.status =
            IF Named({CanonicalToken}) # {} THEN "collected"
            ELSE IF Named(FallbackTokens) # {} THEN "partial"
            ELSE "no_artifacts"

C15_Witness ==
    /\ Listed
    /\ one_listing.names = <<"hosted-nim-report", "build-logs">>
    /\ one_listing.fetched = <<TRUE, TRUE>>
    /\ one_result.downloads = {1}
    /\ one_result.result.status = "partial"

\* ------------------------------------------------------ aggregate_reports.py

\* d.get(k, default)
Get(d, k, default) == IF k \in DOMAIN d THEN d[k] ELSE default

\* d[k] = v
With(d, k, v) == [x \in DOMAIN d \cup {k} |-> IF x = k THEN v ELSE d[x]]

\* d without the keys ks.
Without(d, ks) == [x \in DOMAIN d \ ks |-> d[x]]

\* {}
EmptyDict == <<>>

SupportFlags == {"supports_local_nim", "supports_hosted_nim"}
UsageFlags == {"uses_local_nim_in_actions", "uses_hosted_nim_in_actions"}

\* The summary objects of a report: each capability flag, and each usage
\* flag, true, false or absent.
Summaries ==
    UNION {[ks -> BOOLEAN] : ks \in SUBSET SupportFlags \cup SUBSET UsageFlags}
    \cup {[k \in SupportFlags \cup UsageFlags |->
              k \in {"supports_local_nim", "uses_local_nim_in_actions"}]}

\* A report document with the summary s.
ReportDoc(s) ==
    [metadata |-> [repo_name |-> "a/b"], classification |-> "LOCAL_NIM",
     summary |-> s]

ReportDocs ==
    {ReportDoc(s) : s \in Summaries}
    \cup {Without(ReportDoc(EmptyDict), {"summary"}),
          Without(ReportDoc(EmptyDict), {"classification"}),
          With(ReportDoc(EmptyDict), "classification", "HOSTED_NIM"),
          With(ReportDoc(EmptyDict), "_note", "kept by the scanner")}

\* The report files of the repository directories: the canonical
\* nim-scan-report.json, another *report*.json, or a file that does not load.
ReportFiles ==
    {[doc |-> d, file |-> "nim-scan-report.json", loads |-> TRUE] :
        d \in ReportDocs}
    \cup {[doc |-> ReportDoc(EmptyDict), file |-> "docker-report.json",
           loads |-> TRUE],
          [doc |-> With(ReportDoc(EmptyDict), "_note", "kept by the scanner"),
           file |-> "docker-report.json", loads |-> TRUE],
          [doc |-> EmptyDict, file |-> "nim-scan-report.json",
           loads |-> FALSE]}

\* load_repo_reports: the reports of the files that load, in discovery
\* order, each with its provenance fields; directory k holds file k.
RECURSIVE load_repo_reports(_, _)
load_repo_reports(docs, k) ==
    IF k > Len(docs) THEN <<>>
    ELSE IF ~docs[k].loads THEN load_repo_reports(docs, k + 1)
    ELSE IF docs[k].file = "nim-scan-report.json"
    THEN <<With(docs[k].doc, "_source_dir", k)>>
         \o load_repo_reports(docs, k + 1)
    ELSE <<With(With(docs[k].doc, "_source_dir", k),
                "_source_file", docs[k].file)>>
         \o load_repo_reports(docs, k + 1)

\* A mutant of support_type: the chain of tests starts with the local flag.
support_type_local_first(supports_local, supports_hosted) ==
    IF supports_local THEN "local_only"
    ELSE IF supports_local /\ supports_hosted THEN "both"
    ELSE IF supports_hosted THEN "hosted_only"
    ELSE "none"

\* if supports_local and supports_hosted: ... elif ... elif ... else
support_type(supports_local, supports_hosted) ==
    IF supports_local /\ supports_hosted THEN "both"
    ELSE IF supports_local THEN "local_only"
    ELSE IF supports_hosted THEN "hosted_only"
    ELSE "none"

\* if uses_local and uses_hosted: ... elif ... elif ... else
actions_usage(uses_local, uses_hosted) ==
    IF uses_local /\ uses_hosted THEN "both_in_actions"
    ELSE IF uses_local THEN "local_in_actions"
    ELSE IF uses_hosted THEN "hosted_in_actions"
    ELSE "none_in_actions"

\* counter[key] += 1
Incr(counter, key) == With(counter, key, Get(counter, key, 0) + 1)

\* aggregate_statistics: the body of its loop, for one report.
CountReport(stats, report) ==
    LET summary == Get(report, "summary", EmptyDict)
    IN  [by_classification |->
            Incr(stats.by_classification,
                 Get(report, "classification", "UNKNOWN")),
         by_support_type |->
            Incr(stats.by_support_type,
                 support_type(Get(summary, "supports_local_nim", FALSE),
                              Get(summary, "supports_hosted_nim", FALSE))),
         by_actions_usage |->
            Incr(stats.by_actions_usage,
                 actions_usage(Get(summary, "uses_local_nim_in_actions", FALSE),
                               Get(summary, "uses_hosted_nim_in_actions",
                                   FALSE)))]

RECURSIVE CountFrom(_, _, _)
CountFrom(stats, rs, k) ==
    IF k > Len(rs) THEN stats
    ELSE CountFrom(CountReport(stats, rs[k]), rs, k + 1)

aggregate_statistics(rs) ==
    CountFrom([by_classification |-> EmptyDict, by_support_type |-> EmptyDict,
               by_actions_usage |-> EmptyDict], rs, 1)

\* k.startswith("_"), for the field names of the reports.
StartsWithUnderscore(k) == k \in {"_source_dir", "_source_file", "_note"}

\* {k: v for k, v in report.items() if not k.startswith("_")}
cleaned(report) ==
    [k \in {x \in DOMAIN report : ~StartsWithUnderscore(x)} |-> report[k]]

\* main(): the document written when no report was loaded.
empty_report(t) ==
    [metadata |-> [aggregation_time |-> t, total_repos |-> 0],
     summary |-> EmptyDict,
     repositories |-> <<>>]

\* main(): the document written otherwise.
aggregated_report(rs, t) ==
    [metadata |-> [aggregation_time |-> t, total_repos |-> Len(rs),
                   successful_scans |-> Len(rs)],
     summary |-> aggregate_statistics(rs),
     repositories |-> [k \in DOMAIN rs |-> cleaned(rs[k])]]

InitAggregate ==
    /\ pc = "a_start"
    /\ documents \in UNION {[1..n -> ReportFiles] : n \in 0..MaxReports}
    /\ reports = <<>>
    /\ aggregated = NoFile
    /\ one_run = <<>>
    /\ one_listing = <<>>
    /\ one_result = <<>>
    /\ PassesIdle

\* main(): reports = load_repo_reports(reports_dir)
AggregateLoad ==
    /\ pc = "a_start"
    /\ reports' = load_repo_reports(documents, 1)
    /\ pc' = "a_loaded"
    /\ UNCHANGED <<now, i, op, trigger_vars, collect_vars, one_run,
                   one_listing, one_result, documents, aggregated>>

\* main(): if not reports
AggregateEmpty ==
    /\ pc = "a_loaded"
    /\ Len(reports) = 0
    /\ aggregated' = [written |-> TRUE, doc |-> empty_report(now)]
    /\ pc' = "a_done"
    /\ UNCHANGED <<now, i, op, trigger_vars, collect_vars, one_run,
                   one_listing, one_result, documents, reports>>

\* main(): the statistics, the cleaned reports and the aggregate file.
AggregateReports ==
    /\ pc = "a_loaded"
    /\ Len(reports) > 0
    /\ aggregated' = [written |-> TRUE, doc |-> aggregated_report(reports, now)]
    /\ pc' = "a_done"
    /\ UNCHANGED <<now, i, op, trigger_vars, collect_vars, one_run,
                   one_listing, one_result, documents, reports>>

NextAggregate ==
    \/ AggregateLoad
    \/ AggregateEmpty
    \/ AggregateReports

SpecAggregate == InitAggregate /\ [][NextAggregate]_vars

\* The flag of the summary of a report is present and true.
Flag(report, name) ==
    /\ "summary" \in DOMAIN report
    /\ name \in DOMAIN report["summary"]
    /\ report["summary"][name]

\* The sum of the counts of a table.
RECURSIVE SumOver(_, _)
SumOver(counter, keys) ==
    IF keys = {} THEN 0
    ELSE LET k == CHOOSE x \in keys : TRUE
         IN  counter[k] + SumOver(counter, keys \ {k})

Total(counter) == SumOver(counter, DOMAIN counter)

\* C18: the counts of each table sum to the number of reports; the four
\* support buckets and the four usage buckets count the reports by their two
\* flags, an absent flag or summary counting as false; the reports without a
\* classification are counted under UNKNOWN.
C18_TalliesPartitionReports ==
    (pc = "a_done" /\ Len(reports) > 0) =>
        LET S == aggregated.doc.summary
            N == DOMAIN reports
            L(k) == Flag(reports[k], "supports_local_nim")
            H(k) == Flag(reports[k], "supports_hosted_nim")
            UL(k) == Flag(reports[k], "uses_local_nim_in_actions")
            UH(k) == Flag(reports[k], "uses_hosted_nim_in_actions")
        IN  /\ Total(S.by_classification) = Len(reports)
            /\ Total(S.by_support_type) = Len(reports)
            /\ Total(S.by_actions_usage) = Len(reports)
            /\ DOMAIN S.by_support_type
                  \subseteq {"both", "local_only", "hosted_only", "none"}
            /\ DOMAIN S.by_actions_usage
                  \subseteq {"both_in_actions", "local_in_actions",
                             "hosted_in_actions", "none_in_actions"}
            /\ Get(S.by_support_type, "both", 0)
                  = Cardinality({k \in N : L(k) /\ H(k)})
            /\ Get(S.by_support_type, "local_only", 0)
                  = Cardinality({k \in N : L(k) /\ ~H(k)})
            /\ Get(S.by_support_type, "hosted_only", 0)
                  = Cardinality({k \in N : ~L(k) /\ H(k)})
            /\ Get(S.by_support_type, "none", 0)
                  = Cardinality({k \in N : ~L(k) /\ ~H(k)})
            /\ Get(S.by_actions_usage, "both_in_actions", 0)
                  = Cardinality({k \in N : UL(k) /\ UH(k)})
            /\ Get(S.by_actions_usage, "local_in_actions", 0)
                  = Cardinality({k \in N : UL(k) /\ ~UH(k)})
            /\ Get(S.by_actions_usage, "hosted_in_actions", 0)
                  = Cardinality({k \in N : ~UL(k) /\ UH(k)})
            /\ Get(S.by_actions_usage, "none_in_actions", 0)
                  = Cardinality({k \in N : ~UL(k) /\ ~UH(k)})
            /\ Get(S.by_classification, "UNKNOWN", 0)
                  = Cardinality({k \in N :
                                   "classification" \notin DOMAIN reports[k]})

C18_Witness ==
    /\ pc = "a_done"
    /\ Len(reports) = 2
    /\ Flag(reports[1], "supports_local_nim")
    /\ Flag(reports[1], "supports_hosted_nim")
    /\ "summary" \notin DOMAIN reports[2]
    /\ aggregated.doc.summary.by_support_type = [b \in {"both", "none"} |-> 1]
    /\ aggregated.doc.summary.by_actions_usage
          = [b \in {"none_in_actions"} |-> 2]

\* C19 as claimed: with no report the aggregate has the schema of the
\* non-empty case: the three tables present and empty, no repositories,
\* total_repos and successful_scans zero.
C19_EmptyAggregateSameSchema ==
    (pc = "a_done" /\ Len(reports) = 0) =>
        LET d == aggregated.doc
        IN  /\ d.repositories = <<>>
            /\ d.metadata.total_repos = 0
            /\ DOMAIN d.summary
                  = {"by_classification", "by_support_type",
                     "by_actions_usage"}
            /\ \A t \in DOMAIN d.summary : d.summary[t] = EmptyDict
            /\ "successful_scans" \in DOMAIN d.metadata
            /\ d.metadata.successful_scans = 0

\* C20 as claimed: the repositories of the aggregate are the loaded reports,
\* in order, without their two provenance fields and otherwise unchanged,
\* and total_repos is their number.
C20_OnlyProvenanceRemoved ==
    (pc = "a_done" /\ Len(reports) > 0) =>
        LET d == aggregated.doc
        IN  /\ Len(d.repositories) = Len(reports)
            /\ d.metadata.total_repos = Len(d.repositories)
            /\ \A k \in DOMAIN reports :
                  d.repositories[k]
                     = Without(reports[k], {"_source_dir", "_source_file"})

====
